---- MODULE Spec2Model ----
(***************************************************************************)
(* Model of the snowball packaging pipeline (src/snowball/snowball.py and  *)
(* src/snowball/run_dbt.py): the procedure rewriter, the notebook          *)
(* assembler, the archiver and the stage sequence of main().               *)
(*                                                                         *)
(* Text is a sequence of one-character strings; a path is a sequence of    *)
(* segments, each segment a sequence of characters.                        *)
(***************************************************************************)
EXTENDS Integers, Sequences, FiniteSets, TLC

VARIABLES
    rw_path,     \* transform_compiled_sql: sql_file_path, relative to compiled_dir
    rw_file,     \* content of the file at rw_path
    rw_orig,     \* content of the file before the first call
    rw_first,    \* content of the file after the first call
    rw_calls,    \* number of calls of transform_compiled_sql made on the file
    rw_raised,   \* TRUE once a call hit the `except Exception: pass` branch
    nb_compiled, \* generate_notebooks: the files under compiled_dir (relative paths)
    nb_pc,       \* generate_notebooks: "idle", "folders" (in the loop of line 535), "done"
    nb_pending,  \* the folders of model_folders the loop has not reached yet
    nb_docs,     \* the notebooks written to notebooks_dir: file name -> cells
    nb_result,   \* the value generate_notebooks returned
    nb_failed,   \* the folders whose round of the loop raised
    zip_disk,    \* zip_directory: the files on disk (absolute paths)
    zip_archives,\* the archives in output_dir: zip path -> entry names, in write order
    zip_call,    \* the last zip_directory call: source_dir, zip_path and how it ended
    prog,        \* which main() runs: "snowball" (snowball.py) or "run_dbt" (run_dbt.py)
    pc,          \* where main() is
    log,         \* the stages main() has executed so far, each with its outcome
    mode,        \* the packaging mode picked at the menu (0 before the menu)
    type,        \* snowball.py main(): `type`, read from the profile at line 774
    user_choice, \* snowball.py main(): the platform number entered at line 792
    profile_type,\* the platform kind profiles.yml holds now
    depth,       \* the number of nested checking() calls
    lint,        \* apply_sqlfluff_to_compiled: what the linter did and the calls made
    dbname,      \* main(): the database name every stage is called with
    schemaname,  \* main(): the schema name every stage is called with
    tablename,   \* main(): the revenue table name every stage is called with
    out_dirs,    \* main(): the files in compiled_dir and in notebooks_dir
    zipped,      \* main(): the files in the archive this run has written
    b_disk,      \* process_compiled_sql_files: the files under compiled_dir, path -> content
    b_orig,      \* the same files before the call
    b_pc,        \* "idle", "loop" (in the loop of line 663) or "done"
    b_queue,     \* sql_files, the part the loop has not reached yet
    b_calls,     \* the paths transform_compiled_sql has been called on, in call order
    b_failed,    \* the paths whose call ended in `except Exception: pass`
    pg_fn,       \* the function that shows the bar: "run_dbt" or "run_dbt_args" (compile)
    pg_model_count, \* model_count, the total of the progress bar
    pg_main,     \* where the main thread is: "start", "invoke", "returned", "ensure", "done"
    pg_thread,   \* where progress_thread is: "off", "sleep", "tick", "bar", "end"
    pg_i,        \* the loop variable i of the progress thread
    pg_processed,\* tracker.processed (run_dbt)
    pg_remaining,\* remaining, as the main thread computed it (run_dbt)
    pg_n         \* pbar.n, the count the bar displays

rwVars == <<rw_path, rw_file, rw_orig, rw_first, rw_calls, rw_raised>>

nbVars == <<nb_compiled, nb_pc, nb_pending, nb_docs, nb_result, nb_failed>>

zipVars == <<zip_disk, zip_archives, zip_call>>

mainVars == <<prog, pc, log, mode, type, user_choice, profile_type, depth, lint,
              dbname, schemaname, tablename, out_dirs, zipped>>

batchVars == <<b_disk, b_orig, b_pc, b_queue, b_calls, b_failed>>

progressVars == <<pg_fn, pg_model_count, pg_main, pg_thread, pg_i, pg_processed,
                  pg_remaining, pg_n>>

vars == <<rw_path, rw_file, rw_orig, rw_first, rw_calls, rw_raised,
          nb_compiled, nb_pc, nb_pending, nb_docs, nb_result, nb_failed,
          zip_disk, zip_archives, zip_call,
          prog, pc, log, mode, type, user_choice, profile_type, depth, lint,
          dbname, schemaname, tablename, out_dirs, zipped,
          b_disk, b_orig, b_pc, b_queue, b_calls, b_failed,
          pg_fn, pg_model_count, pg_main, pg_thread, pg_i, pg_processed,
          pg_remaining, pg_n>>

\* what each component leaves alone
notRewrite == <<nbVars, zipVars, mainVars, batchVars, progressVars>>

notNotebooks == <<rwVars, zipVars, mainVars, batchVars, progressVars>>

notArchive == <<rwVars, nbVars, mainVars, batchVars, progressVars>>

notMain == <<rwVars, nbVars, zipVars, batchVars, progressVars>>

notBatch == <<rwVars, nbVars, zipVars, mainVars, progressVars>>

notProgress == <<rwVars, nbVars, zipVars, mainVars, batchVars>>

(***************************************************************************)
(* Bounds of the model.                                                    *)
(***************************************************************************)
MaxPieces == 4      \* a compiled text is a concatenation of at most MaxPieces pieces
MaxCalls == 2       \* transform_compiled_sql is called at most MaxCalls times on a file
MaxFiles == 4       \* the compiled directory holds at most MaxFiles files
MaxProbes == 3      \* checking() is entered at most MaxProbes times in a run
MaxLintFiles == 2   \* the linter is run on at most MaxLintFiles compiled files
MaxBatch == 3       \* process_compiled_sql_files finds at most MaxBatch files
MaxModels == 3      \* get_dbt_models_count() returns at most MaxModels

(***************************************************************************)
(* Characters and strings.                                                 *)
(***************************************************************************)
Lower == <<"a","b","c","d","e","f","g","h","i","j","k","l","m","n","o","p","q","r","s","t","u","v","w","x","y","z">>
Upper == <<"A","B","C","D","E","F","G","H","I","J","K","L","M","N","O","P","Q","R","S","T","U","V","W","X","Y","Z">>
Digits == <<"0","1","2","3","4","5","6","7","8","9">>

Range(s) == {s[i] : i \in DOMAIN s}

SetMax(S) == CHOOSE x \in S : \A y \in S : y <= x

SetMin(S) == CHOOSE x \in S : \A y \in S : x <= y

\* \w of the re module: letters, digits and the underscore
WordChars == Range(Lower) \cup Range(Upper) \cup Range(Digits) \cup {"_"}

\* the characters str.strip() removes
Whitespace == {" ", "\t", "\n", "\r", "\f"}

\* re.IGNORECASE: a letter is compared by its upper-case form
UpperOf == [c \in Range(Lower) |-> Upper[CHOOSE i \in DOMAIN Lower : Lower[i] = c]]

ToUpper(c) == IF c \in DOMAIN UpperOf THEN UpperOf[c] ELSE c

\* s[from:] in Python terms, with 1-based `from`
Drop(s, from) == SubSeq(s, from, Len(s))

\* s.lstrip()
LStrip(s) ==
    LET keep == {i \in DOMAIN s : s[i] \notin Whitespace}
    IN  IF keep = {} THEN <<>> ELSE Drop(s, SetMin(keep))

\* s.rstrip()
RStrip(s) ==
    LET keep == {i \in DOMAIN s : s[i] \notin Whitespace}
    IN  IF keep = {} THEN <<>> ELSE SubSeq(s, 1, SetMax(keep))

\* s.strip()
Strip(s) ==
    LET keep == {i \in DOMAIN s : s[i] \notin Whitespace}
    IN  IF keep = {} THEN <<>> ELSE SubSeq(s, SetMin(keep), SetMax(keep))

\* the 1-based positions at which `sub` occurs in s
Occurrences(sub, s) ==
    {i \in 1..(Len(s) - Len(sub) + 1) : SubSeq(s, i, i + Len(sub) - 1) = sub}

(***************************************************************************)
(* transform_compiled_sql: snowball.py 606-651.                            *)
(***************************************************************************)
SegModels == <<"m","o","d","e","l","s">>
SegProject == <<"S","n","o","w","b","a","l","l","_","d","b","t">>
SegTests == <<"t","e","s","t","s">>
SqlExt == <<".","s","q","l">>

\* \b at the gap before position p (1..Len(s)+1)
WordBoundary(s, p) ==
    LET before == p - 1 \in DOMAIN s /\ s[p - 1] \in WordChars
        after == p \in DOMAIN s /\ s[p] \in WordChars
    IN  before # after

\* re.finditer(r"\bFROM\b", sql_code, re.IGNORECASE): the start offsets (1-based)
FromStartsNoBoundary(s) ==
    {i \in 1..(Len(s) - 3) :
        /\ ToUpper(s[i]) = "F" /\ ToUpper(s[i + 1]) = "R"
        /\ ToUpper(s[i + 2]) = "O" /\ ToUpper(s[i + 3]) = "M"}
FromStarts(s) ==
    {i \in 1..(Len(s) - 3) :
        /\ ToUpper(s[i]) = "F" /\ ToUpper(s[i + 1]) = "R"
        /\ ToUpper(s[i + 2]) = "O" /\ ToUpper(s[i + 3]) = "M"
        /\ WordBoundary(s, i)
        /\ WordBoundary(s, i + 4)}

\* "models" in parts
HasAnchor(parts) == \E i \in DOMAIN parts : parts[i] = SegModels

\* parts.index("models"), 1-based
models_idx(parts) == SetMin({i \in DOMAIN parts : parts[i] = SegModels})

\* the file is rewritten: neither `return` of lines 617-625 is taken
Rewritable(parts) == HasAnchor(parts) /\ models_idx(parts) + 1 <= Len(parts)

folder_raw(parts) == parts[models_idx(parts) + 1]

\* folder_raw.split("_", 1)[1] if "_" in folder_raw else folder_raw
ModelFolderNameLastUnderscore(parts) ==
    LET raw == folder_raw(parts)
        us == {i \in DOMAIN raw : raw[i] = "_"}
    IN  IF us # {} THEN Drop(raw, SetMax(us) + 1) ELSE raw
model_folder_name(parts) ==
    LET raw == folder_raw(parts)
        us == {i \in DOMAIN raw : raw[i] = "_"}
    IN  IF us # {} THEN Drop(raw, SetMin(us) + 1) ELSE raw

\* os.path.splitext(name)[0]: cut at the last dot that follows a non-dot character
SplitExtRoot(name) ==
    LET dots == {i \in DOMAIN name : name[i] = "."}
    IN  IF dots # {} /\ \E j \in 1..(SetMax(dots) - 1) : name[j] # "."
        THEN SubSeq(name, 1, SetMax(dots) - 1)
        ELSE name

model_name(parts) == SplitExtRoot(parts[Len(parts)])

proc_header(parts) ==
    <<"C","R","E","A","T","E"," ","O","R"," ","A","L","T","E","R"," ","P","R","O","C","E","D","U","R","E"," ">>
    \o model_folder_name(parts) \o <<".","s","p","_">> \o model_name(parts)
    \o <<"\n","A","S","\n","B","E","G","I","N","\n"," "," "," "," ","S","E","T"," ","N","O","C","O","U","N","T"," ","O","N",";","\n","\n">>
    \o <<" "," "," "," ","B","E","G","I","N","\n"," "," "," "," "," "," "," "," ","D","R","O","P"," ","T","A","B","L","E"," ","I","F"," ","E","X","I","S","T","S"," ">>
    \o model_folder_name(parts) \o <<".">> \o model_name(parts)
    \o <<";"," ","\n"," "," "," "," ","E","N","D",";","\n","\n">>

\* f"INTO {model_folder_name}.{model_name}\n"
into_clause(parts) ==
    <<"I","N","T","O"," ">> \o model_folder_name(parts) \o <<".">> \o model_name(parts) \o <<"\n">>

proc_footer == <<"\n","E","N","D",";">>

\* lines 637-641: the INTO clause goes before the last match, if there is a match
InsertBeforeFirst(parts, sql_code) ==
    LET match == FromStarts(sql_code)
    IN  IF match # {}
        THEN SubSeq(sql_code, 1, SetMin(match) - 1) \o into_clause(parts)
                 \o Drop(sql_code, SetMin(match))
        ELSE sql_code
InsertAlways(parts, sql_code) ==
    LET match == FromStarts(sql_code)
        insert_pos == IF match # {} THEN SetMax(match) ELSE Len(sql_code) + 1
    IN  SubSeq(sql_code, 1, insert_pos - 1) \o into_clause(parts)
            \o Drop(sql_code, insert_pos)
with_into(parts, sql_code) ==
    LET match == FromStarts(sql_code)
    IN  IF match # {}
        THEN LET insert_pos == SetMax(match)
             IN  SubSeq(sql_code, 1, insert_pos - 1) \o into_clause(parts)
                     \o Drop(sql_code, insert_pos)
        ELSE sql_code

\* line 644
wrapped(parts, sql_code) ==
    proc_header(parts) \o Strip(with_into(parts, sql_code)) \o proc_footer

\* the content of the file after a call that raises nothing
RewrittenTruncatesSkipped(parts, sql_code) ==
    IF Rewritable(parts) THEN wrapped(parts, sql_code) ELSE <<>>
rewritten(parts, sql_code) ==
    IF Rewritable(parts) THEN wrapped(parts, sql_code) ELSE sql_code

(***************************************************************************)
(* The compiled texts and paths the rewriter is run on.                    *)
(***************************************************************************)
\* the keyword is spelt in mixed case, so that it is found through
\* re.IGNORECASE only
Pieces ==
    { <<"f","R","o","m">>, <<"x">>, <<" ">>, <<"\n">>, <<"(">> }

RECURSIVE TextsUpTo(_)
TextsUpTo(n) ==
    IF n = 0 THEN {<<>>}
    ELSE LET prev == TextsUpTo(n - 1)
         IN  prev \cup {t \o p : t \in prev, p \in Pieces}

Texts == TextsUpTo(MaxPieces)

RewritePaths ==
    { <<SegProject, SegModels, <<"1","0","_","s","t","a","g","i","n","g">>, <<"a",".","s","q","l">> >>,
      <<SegProject, SegModels, <<"m","a","r","t","s">>, <<"b",".","s","q","l">> >>,
      <<SegProject, SegTests, <<"t",".","s","q","l">> >> }

\* paths whose folder name is an edge case of line 621, tried with the
\* shorter texts
EdgePaths ==
    { <<SegProject, SegModels, <<"1","0","_">>, <<"a",".","s","q","l">> >>,
      <<SegProject, SegModels, <<"1","0","_","d","a","t","a","_","m","a","r","t","s">>,
        <<"s","u","b">>, <<"d",".","s","q","l">> >>,
      <<SegProject, SegModels, <<"1","_","x">>, SegModels, <<"2","_","y">>,
        <<"e",".","s","q","l">> >>,
      <<SegProject, SegModels, <<"c",".","s","q","l">> >> }

ShortTexts == TextsUpTo(MaxPieces - 2)

InitRewrite ==
    /\ \/ rw_path \in RewritePaths /\ rw_file \in Texts
       \/ rw_path \in EdgePaths /\ rw_file \in ShortTexts
    /\ rw_orig = rw_file
    /\ rw_first = rw_file
    /\ rw_calls = 0
    /\ rw_raised = FALSE

IdleRewrite ==
    /\ rw_path = <<>>
    /\ rw_file = <<>>
    /\ rw_orig = <<>>
    /\ rw_first = <<>>
    /\ rw_calls = 0
    /\ rw_raised = FALSE

\* One call of transform_compiled_sql(sql_file_path). `io` is what the file
\* system does: "ok", a failing read (the file is left alone) or a failing write
\* (open(..., "w") has truncated the file or has failed before that).
IoOutcomes == {"ok", "read_error", "write_error"}

\* the contents the file can have after one call
file_after(parts, content, io) ==
    CASE io = "ok" -> {rewritten(parts, content)}
      [] io = "read_error" -> {content}
      [] io = "write_error" ->
            IF Rewritable(parts) THEN {content, <<>>} ELSE {content}

\* the call ends in the `except Exception: pass` of lines 650-651
call_raises(parts, io) ==
    io = "read_error" \/ (io = "write_error" /\ Rewritable(parts))

transform_compiled_sql ==
    /\ rw_calls < MaxCalls
    /\ \E io \in IoOutcomes :
        /\ rw_file' \in file_after(rw_path, rw_file, io)
        /\ rw_raised' = (rw_raised \/ call_raises(rw_path, io))
    /\ rw_calls' = rw_calls + 1
    /\ rw_first' = IF rw_calls = 0 THEN rw_file' ELSE rw_first
    /\ UNCHANGED <<rw_path, rw_orig>>
    /\ UNCHANGED notRewrite

(***************************************************************************)
(* generate_notebooks: snowball.py 519-577.                                *)
(***************************************************************************)
\* the characters of file and folder names, by ascending code point
CodeOrder == <<".">> \o Digits \o Upper \o <<"_">> \o Lower

Rank(c) == CHOOSE i \in DOMAIN CodeOrder : CodeOrder[i] = c

\* a < b for Python strings
LexLess(a, b) ==
    \E i \in 1..(Len(b)) :
        /\ \A j \in 1..(i - 1) : j <= Len(a) /\ a[j] = b[j]
        /\ \/ i = Len(a) + 1
           \/ i <= Len(a) /\ Rank(a[i]) < Rank(b[i])

\* sorted(S) for a set of strings
RECURSIVE Sorted(_)
Sorted(S) ==
    IF S = {} THEN <<>>
    ELSE LET least == CHOOSE x \in S : \A y \in S \ {x} : LexLess(x, y)
         IN  <<least>> \o Sorted(S \ {least})

Reverse(s) == [i \in DOMAIN s |-> s[Len(s) + 1 - i]]

\* file.endswith('.sql')
EndsWithSql(name) ==
    Len(name) >= Len(SqlExt) /\ Drop(name, Len(name) - Len(SqlExt) + 1) = SqlExt

\* s.split('_')[-1]
LastUnderscorePart(s) ==
    LET us == {i \in DOMAIN s : s[i] = "_"}
    IN  IF us = {} THEN s ELSE Drop(s, SetMax(us) + 1)

\* s.upper()
UpperCase(s) == [i \in DOMAIN s |-> ToUpper(s[i])]

DirOf(path) == SubSeq(path, 1, Len(path) - 1)

BaseName(path) == path[Len(path)]

IsPrefix(dir, path) == Len(dir) <= Len(path) /\ SubSeq(path, 1, Len(dir)) = dir

\* the text of a compiled file: one text per file, different for different files
sql_content(path) == <<"q", ":">> \o BaseName(path) \o <<"@">> \o path[Len(path) - 1]

\* lines 524-532: the last segment of every directory that holds a .sql file,
\* the compiled root itself and directories named models left out
model_folders(files) ==
    {BaseName(DirOf(f)) : f \in {g \in files :
        /\ EndsWithSql(BaseName(g))
        /\ DirOf(g) # <<>>
        /\ BaseName(DirOf(g)) # SegModels}}

\* lines 550-553
folder_path(folder) ==
    IF folder = SegTests THEN <<SegProject, folder>>
    ELSE <<SegProject, SegModels, folder>>

\* the sub-directories of dir
SubDirs(dir, files) ==
    {SubSeq(f, 1, Len(dir) + 1) : f \in {g \in files : IsPrefix(dir, DirOf(g)) /\ DirOf(g) # dir}}

\* os.walk(dir), top-down: dir, then the walk of each sub-directory; the
\* sub-directories come in the order the file system lists them (by name,
\* ascending or descending)
RECURSIVE Walk(_, _, _)
RECURSIVE WalkEach(_, _, _)
Walk(dir, files, descending) ==
    LET names == Sorted({BaseName(d) : d \in SubDirs(dir, files)})
        listed == IF descending THEN Reverse(names) ELSE names
    IN  <<dir>> \o WalkEach([i \in DOMAIN listed |-> dir \o <<listed[i]>>], files, descending)
WalkEach(dirs, files, descending) ==
    IF dirs = <<>> THEN <<>>
    ELSE Walk(Head(dirs), files, descending) \o WalkEach(Tail(dirs), files, descending)

\* os.walk of a directory that may not exist
WalkOf(dir, files, descending) ==
    IF \E f \in files : IsPrefix(dir, DirOf(f)) THEN Walk(dir, files, descending) ELSE <<>>

\* the names of the files directly in dir
FilesIn(dir, files) == {BaseName(f) : f \in {g \in files : DirOf(g) = dir}}

heading_cell(folder) ==
    [cell_type |-> "markdown", text |-> "layer", schema |-> LastUnderscorePart(UpperCase(folder)),
     model |-> <<>>, sql |-> <<>>]

schema_cell(folder) ==
    [cell_type |-> "code", text |-> "create schema", schema |-> LastUnderscorePart(folder),
     model |-> <<>>, sql |-> <<>>]

title_cell(name) ==
    [cell_type |-> "markdown", text |-> "title", schema |-> <<>>, model |-> name, sql |-> <<>>]

model_cell(folder, name, sql) ==
    [cell_type |-> "code", text |-> "drop and create table", schema |-> LastUnderscorePart(folder),
     model |-> name, sql |-> sql]

\* lines 556-569: the cells of the .sql files of one directory, sorted by name
RECURSIVE FileCells(_, _, _)
FileCells(folder, dir, names) ==
    IF names = <<>> THEN <<>>
    ELSE (IF EndsWithSql(Head(names))
          THEN << title_cell(SplitExtRoot(Head(names))),
                  model_cell(folder, SplitExtRoot(Head(names)), sql_content(dir \o <<Head(names)>>)) >>
          ELSE <<>>)
         \o FileCells(folder, dir, Tail(names))

\* lines 555-569: the cells of every directory of the walk
RECURSIVE WalkCells(_, _, _)
WalkCells(folder, roots, files) ==
    IF roots = <<>> THEN <<>>
    ELSE FileCells(folder, Head(roots), Sorted(FilesIn(Head(roots), files)))
         \o WalkCells(folder, Tail(roots), files)

\* lines 540-569: the cells of the notebook of one folder
NoHeadingCells(folder, files, descending) ==
    <<schema_cell(folder)>>
    \o WalkCells(folder, WalkOf(folder_path(folder), files, descending), files)
notebook_cells(folder, files, descending) ==
    <<heading_cell(folder), schema_cell(folder)>>
    \o WalkCells(folder, WalkOf(folder_path(folder), files, descending), files)

\* f"{folder}_nb.ipynb"
notebook_name(folder) == folder \o <<"_","n","b",".","i","p","y","n","b">>

SegStaging == <<"s","t","a","g","i","n","g">>
SegMarts == <<"m","a","r","t","s">>

\* the files a compiled directory may hold
CompiledUniverse ==
    { <<SegProject, SegModels, SegStaging, <<"b",".","s","q","l">> >>,
      <<SegProject, SegModels, SegStaging, <<"a",".","s","q","l">> >>,
      <<SegProject, SegModels, SegStaging, <<"c",".","s","q","l">> >>,
      <<SegProject, SegModels, SegStaging, <<"s","u","b">>, <<"a",".","s","q","l">> >>,
      <<SegProject, SegModels, SegStaging, <<"a","l","t">>, <<"z",".","s","q","l">> >>,
      <<SegProject, SegModels, SegStaging, <<"n","o","t","e","s",".","t","x","t">> >>,
      <<SegProject, SegModels, SegMarts, <<"m",".","s","q","l">> >>,
      <<SegProject, SegModels, <<"1","0","_","d","a","t","a","_","m","a","r","t","s">>, <<"d",".","s","q","l">> >>,
      <<SegProject, SegTests, <<"t",".","s","q","l">> >> }

EmptyDocs == [n \in {} |-> <<>>]

InitNotebooks ==
    /\ nb_compiled \in {S \in SUBSET CompiledUniverse : Cardinality(S) \in 1..MaxFiles}
    /\ nb_pc = "idle"
    /\ nb_pending = {}
    /\ nb_docs = EmptyDocs
    /\ nb_result = TRUE
    /\ nb_failed = {}

IdleNotebooks ==
    /\ nb_compiled = {}
    /\ nb_pc = "idle"
    /\ nb_pending = {}
    /\ nb_docs = EmptyDocs
    /\ nb_result = TRUE
    /\ nb_failed = {}

\* lines 521-532: makedirs and the scan of compiled_dir; an exception here
\* makes generate_notebooks return False
generate_notebooks_scan ==
    /\ nb_pc = "idle"
    /\ \E io \in {"ok", "error"} :
        IF io = "ok"
        THEN /\ nb_pc' = "folders"
             /\ nb_pending' = model_folders(nb_compiled)
             /\ UNCHANGED nb_result
        ELSE /\ nb_pc' = "done"
             /\ nb_result' = FALSE
             /\ UNCHANGED nb_pending
    /\ UNCHANGED <<nb_compiled, nb_docs, nb_failed>>
    /\ UNCHANGED notNotebooks

\* lines 535-573: one round of the loop over model_folders (a set: any order);
\* a read or write error ends the function with False, the notebooks written
\* before stay
generate_notebooks_folder ==
    /\ nb_pc = "folders"
    /\ \E folder \in nb_pending, io \in {"ok", "error"}, descending \in BOOLEAN :
        IF io = "ok"
        THEN /\ nb_docs' = [n \in DOMAIN nb_docs \cup {notebook_name(folder)} |->
                              IF n = notebook_name(folder)
                              THEN notebook_cells(folder, nb_compiled, descending)
                              ELSE nb_docs[n]]
             /\ nb_pending' = nb_pending \ {folder}
             /\ UNCHANGED <<nb_pc, nb_result, nb_failed>>
        ELSE /\ nb_pc' = "done"
             /\ nb_result' = FALSE
             /\ nb_failed' = nb_failed \cup {folder}
             /\ UNCHANGED <<nb_docs, nb_pending>>
    /\ UNCHANGED nb_compiled
    /\ UNCHANGED notNotebooks

\* line 577: the loop is over
generate_notebooks_return ==
    /\ nb_pc = "folders"
    /\ nb_pending = {}
    /\ nb_pc' = "done"
    /\ nb_result' = TRUE
    /\ UNCHANGED <<nb_compiled, nb_docs, nb_pending, nb_failed>>
    /\ UNCHANGED notNotebooks

(***************************************************************************)
(* zip_directory and its call sites: snowball.py 446-460, 862-863, 898,    *)
(* 934-936.                                                                *)
(***************************************************************************)
\* config.py 13-16 and snowball.py 33-35
output_dir == << <<"~">>, <<"D","o","w","n","l","o","a","d","s">> >>

project_dir == output_dir \o << <<"s","n","o","w","b","a","l","l","_","d","b","t">> >>

compiled_dir == project_dir \o << <<"t","a","r","g","e","t">>, <<"c","o","m","p","i","l","e","d">> >>

notebooks_dir == output_dir \o << <<"n","o","t","e","b","o","o","k","s">> >>

\* the output_zip of the three modes of main()
dbt_zip == output_dir \o << <<"s","n","o","w","b","a","l","l","_","d","b","t",".","z","i","p">> >>

sql_zip == output_dir \o << <<"s","n","o","w","b","a","l","l","_","s","q","l",".","z","i","p">> >>

spark_zip == output_dir \o << <<"s","n","o","w","b","a","l","l","_","s","p","a","r","k",".","z","i","p">> >>

\* os.path.relpath(file_path, source_dir) for a file under source_dir
RelPath(file_path, source_dir) == Drop(file_path, Len(source_dir) + 1)

\* lines 455-459: the arcnames of the files of the walked directories, in order
RECURSIVE ArcNames(_, _, _, _)
ArcNames(roots, source_dir, disk, descending) ==
    IF roots = <<>> THEN <<>>
    ELSE LET names == Sorted(FilesIn(Head(roots), disk))
             listed == IF descending THEN Reverse(names) ELSE names
         IN  [i \in DOMAIN listed |-> RelPath(Head(roots) \o <<listed[i]>>, source_dir)]
             \o ArcNames(Tail(roots), source_dir, disk, descending)

\* the entries zip_directory writes when nothing raises
zip_entries(source_dir, disk, descending) ==
    ArcNames(WalkOf(source_dir, disk, descending), source_dir, disk, descending)

\* zipfile.ZipFile(zip_path, 'w'): the archive starts empty, whatever was there
AppendToArchive(archives, zip_path) ==
    IF zip_path \in DOMAIN archives THEN archives[zip_path] ELSE <<>>
opened_archive(archives, zip_path) == <<>>

\* the archives after zip_directory(source_dir, zip_path) has written `written`
zip_written(archives, zip_path, written) ==
    [z \in DOMAIN archives \cup {zip_path} |->
        IF z = zip_path THEN opened_archive(archives, zip_path) \o written ELSE archives[z]]

\* the files that may be on disk
DiskUniverse ==
    { project_dir \o << <<"d","b","t","_","p","r","o","j","e","c","t",".","y","m","l">> >>,
      project_dir \o << SegModels, <<"x">>, <<"1",".","s","q","l">> >>,
      compiled_dir \o << <<"x">>, <<"1",".","s","q","l">> >>,
      compiled_dir \o << <<"y">>, <<"2",".","s","q","l">> >>,
      compiled_dir \o << <<"y">>, <<"r","e","a","d","m","e">> >>,
      notebooks_dir \o << <<"s","t","a","g","i","n","g","_","n","b",".","i","p","y","n","b">> >>,
      output_dir \o << <<"c","o","l","u","m","n","_","m","a","p","p","i","n","g",".","c","s","v">> >> }

\* what an archive left by an earlier run holds
StaleEntries == << << <<"o","l","d">>, <<"0",".","s","q","l">> >> >>

NoCall == [source_dir |-> <<>>, zip_path |-> <<>>, status |-> "none", replaced |-> FALSE]

InitArchive ==
    /\ zip_disk \in {S \in SUBSET DiskUniverse : Cardinality(S) <= MaxFiles}
    /\ \E old \in SUBSET {dbt_zip, sql_zip, spark_zip} :
          zip_archives = [z \in old |-> StaleEntries]
    /\ zip_call = NoCall

IdleArchive ==
    /\ zip_disk = {}
    /\ zip_archives = [z \in {} |-> <<>>]
    /\ zip_call = NoCall

\* zip_directory(source_dir, zip_path) on the archives `archives`: it returns,
\* or zipf.write raises after some of the entries are written
zip_directory(source_dir, zip_path, archives) ==
    /\ zip_call.status = "none"
    /\ \E descending \in BOOLEAN, io \in {"ok", "error"} :
        LET entries == zip_entries(source_dir, zip_disk, descending)
        IN  IF io = "ok"
            THEN /\ zip_archives' = zip_written(archives, zip_path, entries)
                 /\ zip_call' = [source_dir |-> source_dir, zip_path |-> zip_path,
                                 status |-> "returned",
                                 replaced |-> zip_path \in DOMAIN zip_archives]
            ELSE /\ entries # <<>>
                 /\ \E k \in 0..(Len(entries) - 1) :
                       zip_archives' = zip_written(archives, zip_path, SubSeq(entries, 1, k))
                 /\ zip_call' = [source_dir |-> source_dir, zip_path |-> zip_path,
                                 status |-> "raised",
                                 replaced |-> zip_path \in DOMAIN zip_archives]
    /\ UNCHANGED zip_disk
    /\ UNCHANGED notArchive

\* lines 862-863: package the full dbt project
zip_project == zip_directory(project_dir, dbt_zip, zip_archives)

\* line 898: package the rewritten compiled files
zip_compiled == zip_directory(compiled_dir, sql_zip, zip_archives)

\* lines 934-936: remove an existing archive, then package the notebooks
zip_notebooks ==
    zip_directory(notebooks_dir, spark_zip,
                  [z \in DOMAIN zip_archives \ {spark_zip} |-> zip_archives[z]])

(***************************************************************************)
(* process_compiled_sql_files: snowball.py 653-665.                        *)
(***************************************************************************)
\* every ordering of a set, as os.walk may list the files in any order
RECURSIVE Orderings(_)
Orderings(S) ==
    IF S = {} THEN {<<>>}
    ELSE UNION {{<<x>> \o rest : rest \in Orderings(S \ {x})} : x \in S}

\* the files a compiled directory may hold: the compiled models and tests, and
\* a file that is no .sql file
BatchPaths ==
    RewritePaths \cup
        { <<SegProject, SegModels, <<"m","a","r","t","s">>, <<"b",".","y","m","l">> >> }

BatchTexts ==
    { <<"x">>, <<"x"," ","f","R","o","m"," ","y","\n">> }

\* lines 656-660: the .sql files below compiled_dir
sql_files(disk) == {f \in DOMAIN disk : EndsWithSql(BaseName(f))}

\* lines 663-665: the loop goes on to the next file whatever the call did
AbortBatchOnError(queue, failed) == IF failed THEN <<>> ELSE Tail(queue)
rest_of_batch(queue, failed) == Tail(queue)

InitBatch ==
    /\ \E files \in {S \in SUBSET BatchPaths : Cardinality(S) \in 1..MaxBatch} :
           b_disk \in [files -> BatchTexts]
    /\ b_orig = b_disk
    /\ b_pc = "idle"
    /\ b_queue = <<>>
    /\ b_calls = <<>>
    /\ b_failed = {}

IdleBatch ==
    /\ b_disk = <<>>
    /\ b_orig = <<>>
    /\ b_pc = "idle"
    /\ b_queue = <<>>
    /\ b_calls = <<>>
    /\ b_failed = {}

\* lines 656-660: collect sql_files
process_compiled_sql_files_scan ==
    /\ b_pc = "idle"
    /\ b_queue' \in Orderings(sql_files(b_disk))
    /\ b_pc' = IF b_queue' = <<>> THEN "done" ELSE "loop"
    /\ UNCHANGED <<b_disk, b_orig, b_calls, b_failed>>
    /\ UNCHANGED notBatch

\* lines 663-665: one turn of the loop, transform_compiled_sql(sql_file)
process_compiled_sql_files_step ==
    /\ b_pc = "loop"
    /\ LET sql_file == Head(b_queue)
       IN  \E io \in IoOutcomes :
               /\ \E content \in file_after(sql_file, b_disk[sql_file], io) :
                      b_disk' = [b_disk EXCEPT ![sql_file] = content]
               /\ b_failed' = IF call_raises(sql_file, io)
                              THEN b_failed \cup {sql_file} ELSE b_failed
               /\ b_calls' = Append(b_calls, sql_file)
               /\ b_queue' = rest_of_batch(b_queue, call_raises(sql_file, io))
    /\ b_pc' = IF b_queue' = <<>> THEN "done" ELSE "loop"
    /\ UNCHANGED b_orig
    /\ UNCHANGED notBatch

(***************************************************************************)
(* The progress bar of run_dbt (snowball.py 286-327) and of the compile    *)
(* branch of run_dbt_args (401-429): the main thread starts a daemon       *)
(* thread that ticks the bar on a timer, and calls the engine.             *)
(***************************************************************************)
ProgressFunctions == {"run_dbt", "run_dbt_args"}

\* get_dbt_models_count() returns max(model_count, 1)
ModelCounts == 1..MaxModels

InitProgress ==
    /\ pg_fn \in ProgressFunctions
    /\ pg_model_count \in ModelCounts
    /\ pg_main = "start"
    /\ pg_thread = "off"
    /\ pg_i = 0
    /\ pg_processed = 0
    /\ pg_remaining = 0
    /\ pg_n = 0

IdleProgress ==
    /\ pg_fn = "run_dbt"
    /\ pg_model_count = 1
    /\ pg_main = "idle"
    /\ pg_thread = "off"
    /\ pg_i = 0
    /\ pg_processed = 0
    /\ pg_remaining = 0
    /\ pg_n = 0

\* progress_thread.start(), lines 312-314 and 416-418; the main thread goes on
\* to dbt.invoke
progress_thread_start ==
    /\ pg_main = "start"
    /\ pg_main' = "invoke"
    /\ pg_thread' = "sleep"
    /\ UNCHANGED <<pg_fn, pg_model_count, pg_i, pg_processed, pg_remaining, pg_n>>
    /\ UNCHANGED notProgress

\* for i in range(model_count): time.sleep(...) has elapsed (lines 306-307, 410-411)
simulate_progress_sleep ==
    /\ pg_thread = "sleep"
    /\ pg_thread' = "tick"
    /\ UNCHANGED <<pg_fn, pg_model_count, pg_main, pg_i, pg_processed, pg_remaining, pg_n>>
    /\ UNCHANGED notProgress

\* the loop goes to its next round or ends
next_round(i) == IF i + 1 < pg_model_count THEN "sleep" ELSE "end"

\* the test of the tick: tracker.processed < model_count and the increment of
\* update_progress (lines 308-309, 296-297); i < model_count (line 412)
simulate_progress_tick ==
    /\ pg_thread = "tick"
    /\ IF pg_fn = "run_dbt"
       THEN IF pg_processed < pg_model_count
            THEN /\ pg_processed' = pg_processed + 1
                 /\ pg_thread' = "bar"
                 /\ UNCHANGED pg_i
            ELSE /\ pg_thread' = next_round(pg_i)
                 /\ pg_i' = pg_i + 1
                 /\ UNCHANGED pg_processed
       ELSE /\ pg_thread' = IF pg_i < pg_model_count THEN "bar" ELSE next_round(pg_i)
            /\ pg_i' = IF pg_i < pg_model_count THEN pg_i ELSE pg_i + 1
            /\ UNCHANGED pg_processed
    /\ UNCHANGED <<pg_fn, pg_model_count, pg_main, pg_remaining, pg_n>>
    /\ UNCHANGED notProgress

\* pbar.update(1), lines 298 and 413
simulate_progress_update ==
    /\ pg_thread = "bar"
    /\ pg_n' = pg_n + 1
    /\ pg_thread' = next_round(pg_i)
    /\ pg_i' = pg_i + 1
    /\ UNCHANGED <<pg_fn, pg_model_count, pg_main, pg_processed, pg_remaining>>
    /\ UNCHANGED notProgress

\* result = dbt.invoke(...) returns, lines 320 and 424
dbt_invoke_returns ==
    /\ pg_main = "invoke"
    /\ pg_main' = "returned"
    /\ UNCHANGED <<pg_fn, pg_model_count, pg_thread, pg_i, pg_processed, pg_remaining, pg_n>>
    /\ UNCHANGED notProgress

\* run_dbt, line 323: remaining = model_count - tracker.processed
run_dbt_remaining ==
    /\ pg_main = "returned"
    /\ pg_fn = "run_dbt"
    /\ pg_remaining' = pg_model_count - pg_processed
    /\ pg_main' = "ensure"
    /\ UNCHANGED <<pg_fn, pg_model_count, pg_thread, pg_i, pg_processed, pg_n>>
    /\ UNCHANGED notProgress

\* run_dbt, lines 324-325: if remaining > 0: pbar.update(remaining)
run_dbt_ensure ==
    /\ pg_main = "ensure"
    /\ pg_n' = IF pg_remaining > 0 THEN pg_n + pg_remaining ELSE pg_n
    /\ pg_main' = "done"
    /\ UNCHANGED <<pg_fn, pg_model_count, pg_thread, pg_i, pg_processed, pg_remaining>>
    /\ UNCHANGED notProgress

\* run_dbt_args, lines 427-428: pbar.n = model_count
run_dbt_args_ensure ==
    /\ pg_main = "returned"
    /\ pg_fn = "run_dbt_args"
    /\ pg_n' = pg_model_count
    /\ pg_main' = "done"
    /\ UNCHANGED <<pg_fn, pg_model_count, pg_thread, pg_i, pg_processed, pg_remaining>>
    /\ UNCHANGED notProgress

(***************************************************************************)
(* main(): snowball.py 746-945 and run_dbt.py 640-776.  One action per     *)
(* stage; the engine, the linter and the file system decide each outcome.  *)
(***************************************************************************)
\* what an engine call can do: result.success, not result.success, or raise
Outcomes == {"ok", "fail", "raise"}

\* the platform kinds a profile may hold, and the numbers the operator may enter
ProfileKinds == {"snowflake", "databricks"}

PlatformChoices == {1, 2, 6}

\* platform_dict.get(user_choice), lines 785-791 and 803
platform_dict_get(choice) ==
    CASE choice = 1 -> "snowflake"
      [] choice = 2 -> "databricks"
      [] choice = 3 -> "fabric"
      [] choice = 4 -> "sqlserver"
      [] choice = 5 -> "redshift"
      [] OTHER -> "None"

\* the names main() is given: snowball.py 770-773 (the table name is typed, the
\* database and the schema come from the profile), run_dbt.py 651-653
Databases == {"db1", "db2"}

Schemas == {"sch1"}

Tables == {"t1"}

EngineOps == {"debug", "deps", "seed", "run-operation", "run", "compile"}

\* vars_dict and args_dict of the stage functions (snowball.py 165-169, 333-342);
\* a --vars or --args value is kept as the dict json.dumps encodes
vars_dict ==
    [my_database |-> dbname, my_schema |-> schemaname, my_table |-> tablename]

ArgsDictSwapped ==
    [db_name |-> schemaname, schema_name |-> dbname, table_name |-> tablename]
args_dict ==
    [db_name |-> dbname, schema_name |-> schemaname, table_name |-> tablename]

\* the values of the --vars options of the argument list of an engine call:
\* compile gets the option from build_dbt_compile_args (line 385) and once
\* more from run_dbt_args (line 396)
cli_vars(op) ==
    IF op = "compile" THEN <<vars_dict, vars_dict>>
    ELSE IF op \in EngineOps THEN <<vars_dict>>
    ELSE <<>>

\* the values of the --args options (run_pre_run_setup, line 350)
cli_args(op) == IF op = "run-operation" THEN <<args_dict>> ELSE <<>>

\* one executed stage; `kind` is the platform kind of the profile a debug probe ran on
Stage(op, outcome) ==
    [op |-> op, outcome |-> outcome, kind |-> "",
     vars |-> cli_vars(op), args |-> cli_args(op)]

Logged(entry) == log' = Append(log, entry)

\* no lint yet
NoLint == [version |-> "none", results |-> <<>>, calls |-> <<>>, success |-> FALSE]

\* the files of the run: what a previous (possibly crashed) run left in
\* compiled_dir and notebooks_dir, what the engine and generate_notebooks write
\* there in this run, and the files of the cloned project
PreviousCompiled == {"target/compiled/old.sql"}

PreviousNotebooks == {"notebooks/old_nb.ipynb"}

FreshCompiled == {"target/compiled/model.sql"}

FreshNotebooks == {"notebooks/model_nb.ipynb"}

ProjectFiles == {"dbt_project.yml"}

\* cleanup_previous_run, snowball.py 148-152: rmtree of both directories
CleanupCompiledOnly(d) == [d EXCEPT !.compiled = {}]
cleanup_previous_run(d) == [compiled |-> {}, notebooks |-> {}]

\* the files below the directory a mode archives: project_dir (which holds
\* compiled_dir), compiled_dir or notebooks_dir (snowball.py 863, 898, 936)
archive_source(m, d) ==
    CASE m = 1 -> ProjectFiles \cup d.compiled
      [] m = 2 -> d.compiled
      [] OTHER -> d.notebooks

InitMain ==
    /\ prog \in {"snowball", "run_dbt"}
    /\ pc = "start"
    /\ log = <<>>
    /\ mode = 0
    /\ type = ""
    /\ user_choice = 0
    /\ profile_type \in ProfileKinds
    /\ depth = 0
    /\ lint = NoLint
    /\ dbname = ""
    /\ schemaname = ""
    /\ tablename = ""
    /\ out_dirs \in [compiled : SUBSET PreviousCompiled, notebooks : SUBSET PreviousNotebooks]
    /\ zipped = {}

IdleMain ==
    /\ prog = "snowball"
    /\ pc = "idle"
    /\ log = <<>>
    /\ mode = 0
    /\ type = ""
    /\ user_choice = 0
    /\ profile_type = "snowflake"
    /\ depth = 0
    /\ lint = NoLint
    /\ dbname = ""
    /\ schemaname = ""
    /\ tablename = ""
    /\ out_dirs = [compiled |-> {}, notebooks |-> {}]
    /\ zipped = {}

\* snowball.py 747-800, run_dbt.py 641-653: clean up, clone, read the inputs;
\* snowball.py reads `type` from the profile and the platform number here
main_start ==
    /\ pc = "start"
    /\ \E cleaned \in BOOLEAN, cloned \in BOOLEAN, choice \in PlatformChoices :
        /\ IF cleaned /\ cloned
           THEN /\ pc' = "gate"
                /\ type' = IF prog = "snowball" THEN profile_type ELSE type
                /\ user_choice' = IF prog = "snowball" THEN choice ELSE user_choice
           ELSE /\ pc' = "crashed"
                /\ UNCHANGED <<type, user_choice>>
        \* snowball.py cleans up first (line 750), run_dbt.py after the clone
        \* (line 648); an rmtree that raises ends main()
        /\ out_dirs' = IF cleaned /\ (prog = "snowball" \/ cloned)
                   THEN cleanup_previous_run(out_dirs) ELSE out_dirs
    /\ UNCHANGED zipped
    /\ dbname' \in Databases
    /\ schemaname' \in Schemas
    /\ tablename' \in Tables
    /\ depth' = depth + 1
    /\ UNCHANGED <<prog, log, mode, profile_type, lint>>
    /\ UNCHANGED notMain

\* the condition of line 803 (snowball.py) and of line 658 (run_dbt.py)
gate_open(outcome) ==
    IF prog = "snowball"
    THEN outcome = "ok" /\ type = platform_dict_get(user_choice)
    ELSE outcome = "ok"

\* the stage that follows the connection gate
after_gate == IF prog = "snowball" THEN "deps" ELSE "mapping"

\* checking(), up to its prompt: snowball.py 801-805, run_dbt.py 656-659
main_checking ==
    /\ pc = "gate"
    /\ \E outcome \in Outcomes :
        /\ Logged([Stage("debug", outcome) EXCEPT !.kind = profile_type])
        /\ pc' = IF outcome = "raise" THEN "crashed"
                 ELSE IF gate_open(outcome) THEN after_gate ELSE "wait"
    /\ UNCHANGED <<prog, mode, type, user_choice, profile_type, depth, lint>>
    /\ UNCHANGED <<dbname, schemaname, tablename>>
    /\ UNCHANGED <<out_dirs, zipped>>
    /\ UNCHANGED notMain

\* the operator at the prompt of checking(): snowball.py 805-806 (edit
\* profiles.yml or not, press Enter: checking() again); run_dbt.py 659-661
\* (enter 1: checking() again; enter anything else: checking() returns)
main_operator ==
    /\ pc = "wait"
    /\ \E edited \in ProfileKinds, answer \in {"1", "other"} :
        /\ profile_type' = edited
        /\ IF prog = "snowball" \/ answer = "1"
           THEN /\ depth < MaxProbes
                /\ depth' = depth + 1
                /\ pc' = "gate"
           ELSE /\ pc' = after_gate
                /\ UNCHANGED depth
    /\ UNCHANGED <<prog, log, mode, type, user_choice, lint>>
    /\ UNCHANGED <<dbname, schemaname, tablename>>
    /\ UNCHANGED <<out_dirs, zipped>>
    /\ UNCHANGED notMain

\* what main() does after an engine stage: go on, `return`, or die of the exception
\* (snowball.py 825-827, 875-886, 891-902)
AfterStageIgnoringFailure(op, outcome, next) ==
    CASE outcome = "ok" -> next
      [] outcome = "fail" -> next
      [] outcome = "raise" ->
            IF op \in {"run-operation", "run"} THEN "aborted" ELSE "crashed"
AfterStageRetriesOnFailure(op, outcome, next) ==
    CASE outcome = "ok" -> next
      [] outcome = "fail" -> IF op = "run-operation" THEN "pre_setup" ELSE op
      [] outcome = "raise" ->
            IF op \in {"run-operation", "run"} THEN "aborted" ELSE "crashed"
after_stage(op, outcome, next) ==
    CASE outcome = "ok" -> next
      [] outcome = "fail" -> "aborted"
      [] outcome = "raise" ->
            IF op \in {"run-operation", "run"} THEN "aborted" ELSE "crashed"

\* snowball.py 824-827, run_dbt.py 695-698 and 735-738
main_deps ==
    /\ pc = "deps"
    /\ \E outcome \in Outcomes :
        /\ Logged(Stage("deps", outcome))
        /\ pc' = after_stage("deps", outcome,
                             IF prog = "snowball" THEN "mapping" ELSE "pre_setup")
    /\ UNCHANGED <<prog, mode, type, user_choice, profile_type, depth, lint>>
    /\ UNCHANGED <<dbname, schemaname, tablename>>
    /\ UNCHANGED <<out_dirs, zipped>>
    /\ UNCHANGED notMain

\* snowball.py 829-831, run_dbt.py 666-668
main_mapping ==
    /\ pc = "mapping"
    /\ \E exists \in BOOLEAN : pc' = IF exists THEN "seed" ELSE "exited"
    /\ UNCHANGED <<prog, log, mode, type, user_choice, profile_type, depth, lint>>
    /\ UNCHANGED <<dbname, schemaname, tablename>>
    /\ UNCHANGED <<out_dirs, zipped>>
    /\ UNCHANGED notMain

\* copy_seed_file (snowball.py 579-604, called at 833): seed runs unless the
\* copy raises; its result, and anything it raises, is dropped
main_seed ==
    /\ pc = "seed"
    /\ \E copied \in BOOLEAN, outcome \in Outcomes :
        log' = IF copied THEN Append(log, Stage("seed", outcome)) ELSE log
    /\ pc' = "menu"
    /\ UNCHANGED <<prog, mode, type, user_choice, profile_type, depth, lint>>
    /\ UNCHANGED <<dbname, schemaname, tablename>>
    /\ UNCHANGED <<out_dirs, zipped>>
    /\ UNCHANGED notMain

\* the menu: snowball.py 845-852, 869, 904, 942-945; run_dbt.py 676-682, 692, 732
main_menu ==
    /\ pc = "menu"
    /\ \E entered \in {"1", "2", "3", "4", "x"} :
        /\ mode' = CASE entered = "1" -> 1 [] entered = "2" -> 2 [] entered = "3" -> 3
                     [] entered = "4" -> 4 [] OTHER -> mode
        /\ pc' = CASE entered = "1" -> "archive"
                   [] entered \in {"2", "3"} ->
                         IF prog = "snowball" THEN "pre_setup" ELSE "deps"
                   [] entered = "4" -> "done"
                   [] OTHER -> "aborted"
    /\ UNCHANGED <<prog, log, type, user_choice, profile_type, depth, lint>>
    /\ UNCHANGED <<dbname, schemaname, tablename>>
    /\ UNCHANGED <<out_dirs, zipped>>
    /\ UNCHANGED notMain

\* snowball.py 874-877 and 909-912
main_pre_setup ==
    /\ pc = "pre_setup"
    /\ \E outcome \in Outcomes :
        /\ Logged(Stage("run-operation", outcome))
        /\ pc' = after_stage("run-operation", outcome, "run")
    /\ UNCHANGED <<prog, mode, type, user_choice, profile_type, depth, lint>>
    /\ UNCHANGED <<dbname, schemaname, tablename>>
    /\ UNCHANGED <<out_dirs, zipped>>
    /\ UNCHANGED notMain

\* snowball.py 879-886 and 914-921
main_run ==
    /\ pc = "run"
    /\ \E outcome \in Outcomes :
        /\ Logged(Stage("run", outcome))
        /\ pc' = after_stage("run", outcome, "compile")
        \* the engine writes the compiled models below compiled_dir
        /\ out_dirs' = IF outcome = "ok"
                   THEN [out_dirs EXCEPT !.compiled = @ \cup FreshCompiled] ELSE out_dirs
    /\ UNCHANGED <<prog, mode, type, user_choice, profile_type, depth, lint>>
    /\ UNCHANGED <<dbname, schemaname, tablename>>
    /\ UNCHANGED zipped
    /\ UNCHANGED notMain

\* snowball.py 888-891, 901-902 and 923-926, 940-941
main_compile ==
    /\ pc = "compile"
    /\ \E outcome \in Outcomes :
        /\ Logged(Stage("compile", outcome))
        /\ pc' = after_stage("compile", outcome, "lint")
        \* the engine writes the compiled models below compiled_dir
        /\ out_dirs' = IF outcome = "ok"
                   THEN [out_dirs EXCEPT !.compiled = @ \cup FreshCompiled] ELSE out_dirs
    /\ UNCHANGED <<prog, mode, type, user_choice, profile_type, depth, lint>>
    /\ UNCHANGED <<dbname, schemaname, tablename>>
    /\ UNCHANGED zipped
    /\ UNCHANGED notMain

\* the stage after lint
AfterLintSkipsTransform == "archive"
after_lint == "transform"

\* what `sqlfluff --version` can do (snowball.py 510): return 0, be missing
\* (FileNotFoundError), return non-zero (CalledProcessError), or fail to start
\* with another OSError, which line 511 does not catch
VersionChecks == {"ok", "missing", "error_exit", "oserror"}

\* what `sqlfluff fix --force <file>` can do for one file (lines 482-494)
FileResults == {"zero", "nonzero", "raise"}

\* run_sqlfluff_on_directory, snowball.py 462-501: `results` is what the linter
\* does for each .sql file, in walk order; the calls made and the value returned
LintStopsAtFirstFailure(results) ==
    LET bad == {i \in DOMAIN results : results[i] # "zero"}
        calls == IF bad = {} THEN results ELSE SubSeq(results, 1, SetMin(bad))
    IN  [calls |-> calls,
         success |-> results = <<>> \/ \E i \in DOMAIN calls : calls[i] = "zero"]
run_sqlfluff_on_directory(results) ==
    [calls |-> results,
     success |-> results = <<>> \/ \E i \in DOMAIN results : results[i] = "zero"]

\* apply_sqlfluff_to_compiled, snowball.py 503-517
apply_sqlfluff_to_compiled(version, results) ==
    IF version = "ok"
    THEN LET r == run_sqlfluff_on_directory(results)
         IN  [version |-> version, results |-> results, calls |-> r.calls,
              success |-> r.success]
    ELSE [version |-> version, results |-> <<>>, calls |-> <<>>, success |-> FALSE]

\* apply_sqlfluff_to_compiled at snowball.py 892-895 and 927-930; its result
\* only prints a notice
main_lint ==
    /\ pc = "lint"
    /\ \E version \in VersionChecks, n \in 0..MaxLintFiles :
        \E results \in [1..n -> FileResults] :
            /\ lint' = apply_sqlfluff_to_compiled(version, results)
            /\ Logged(Stage("lint", IF version = "oserror" THEN "raise"
                                    ELSE IF lint'.success THEN "ok" ELSE "fail"))
            /\ pc' = IF version = "oserror" THEN "crashed" ELSE after_lint
    /\ UNCHANGED <<prog, mode, type, user_choice, profile_type, depth>>
    /\ UNCHANGED <<dbname, schemaname, tablename>>
    /\ UNCHANGED <<out_dirs, zipped>>
    /\ UNCHANGED notMain

\* snowball.py 897 (process_compiled_sql_files) and 932 (generate_notebooks,
\* its result dropped)
TransformationAlwaysRewrite(m) == "rewrite"
transformation(m) == IF m = 2 THEN "rewrite" ELSE "notebooks"

main_transform ==
    /\ pc = "transform"
    /\ IF transformation(mode) = "rewrite"
       THEN /\ Logged(Stage("rewrite", "ok"))
            /\ UNCHANGED out_dirs
       ELSE \E outcome \in {"ok", "fail"} :
               /\ Logged(Stage("notebooks", outcome))
               /\ out_dirs' = IF outcome = "ok"
                          THEN [out_dirs EXCEPT !.notebooks = @ \cup FreshNotebooks]
                          ELSE out_dirs
    /\ pc' = "archive"
    /\ UNCHANGED <<prog, mode, type, user_choice, profile_type, depth, lint>>
    /\ UNCHANGED <<dbname, schemaname, tablename>>
    /\ UNCHANGED zipped
    /\ UNCHANGED notMain

\* zip_directory at snowball.py 860-867, 898 and 934-936: an exception is
\* caught in the full-project mode only
main_archive ==
    /\ pc = "archive"
    /\ \E outcome \in {"ok", "raise"} :
        /\ Logged(Stage("archive", outcome))
        /\ pc' = IF outcome = "ok" \/ mode = 1 THEN "done" ELSE "crashed"
        \* a zip_directory that raises leaves what it had written so far
        /\ zipped' \in IF outcome = "ok" THEN {archive_source(mode, out_dirs)}
                        ELSE SUBSET archive_source(mode, out_dirs)
    /\ UNCHANGED <<prog, mode, type, user_choice, profile_type, depth, lint>>
    /\ UNCHANGED <<dbname, schemaname, tablename>>
    /\ UNCHANGED out_dirs
    /\ UNCHANGED notMain

(***************************************************************************)
(* The specifications: one per component, the other components at rest.    *)
(***************************************************************************)
NextNotebooks ==
    \/ generate_notebooks_scan
    \/ generate_notebooks_folder
    \/ generate_notebooks_return

NotebooksInit == InitNotebooks /\ IdleRewrite /\ IdleArchive /\ IdleMain /\ IdleBatch /\ IdleProgress

SpecNotebooks == NotebooksInit /\ [][NextNotebooks]_vars

NextArchive ==
    \/ zip_project
    \/ zip_compiled
    \/ zip_notebooks

ArchiveInit == InitArchive /\ IdleRewrite /\ IdleNotebooks /\ IdleMain /\ IdleBatch /\ IdleProgress

SpecArchive == ArchiveInit /\ [][NextArchive]_vars

NextRewrite == transform_compiled_sql

RewriteInit == InitRewrite /\ IdleNotebooks /\ IdleArchive /\ IdleMain /\ IdleBatch /\ IdleProgress

NextBatch ==
    \/ process_compiled_sql_files_scan
    \/ process_compiled_sql_files_step

BatchInit == InitBatch /\ IdleRewrite /\ IdleNotebooks /\ IdleArchive /\ IdleMain /\ IdleProgress

SpecBatch == BatchInit /\ [][NextBatch]_vars

NextProgress ==
    \/ progress_thread_start
    \/ simulate_progress_sleep
    \/ simulate_progress_tick
    \/ simulate_progress_update
    \/ dbt_invoke_returns
    \/ run_dbt_remaining
    \/ run_dbt_ensure
    \/ run_dbt_args_ensure

ProgressInit ==
    InitProgress /\ IdleRewrite /\ IdleNotebooks /\ IdleArchive /\ IdleMain /\ IdleBatch

SpecProgress == ProgressInit /\ [][NextProgress]_vars

SpecRewrite == RewriteInit /\ [][NextRewrite]_vars

Next ==
    \/ main_start
    \/ main_checking
    \/ main_operator
    \/ main_deps
    \/ main_mapping
    \/ main_seed
    \/ main_menu
    \/ main_pre_setup
    \/ main_run
    \/ main_compile
    \/ main_lint
    \/ main_transform
    \/ main_archive

Init == InitMain /\ IdleRewrite /\ IdleNotebooks /\ IdleArchive /\ IdleBatch /\ IdleProgress

Spec == Init /\ [][Next]_vars

(***************************************************************************)
(* Claims about transform_compiled_sql, checked under SpecRewrite.         *)
(***************************************************************************)
\* the first call has returned without raising, on a file under the anchor
FirstCallDone == rw_calls = 1 /\ ~rw_raised /\ Rewritable(rw_path)

\* C2 (as stated): for a text with at least one whole-word FROM the rewritten
\* file is the header, the original text with one INTO clause put immediately
\* before the last FROM match and every other character unchanged, leading and
\* trailing whitespace included, and the footer.
C2_Original ==
    (FirstCallDone /\ FromStarts(rw_orig) # {}) =>
        LET p == SetMax(FromStarts(rw_orig))
        IN  rw_file = proc_header(rw_path) \o SubSeq(rw_orig, 1, p - 1)
                        \o into_clause(rw_path) \o Drop(rw_orig, p) \o proc_footer

\* C2 (amended): for a text with at least one whole-word FROM the rewritten
\* file is the header, the original text with its leading and trailing
\* whitespace removed and exactly one INTO clause put immediately before the
\* last FROM match, and the footer; no other character changes.
C2_IntoBeforeLastFrom ==
    (FirstCallDone /\ FromStarts(rw_orig) # {}) =>
        LET p == SetMax(FromStarts(rw_orig))
        IN  /\ rw_file = proc_header(rw_path) \o LStrip(SubSeq(rw_orig, 1, p - 1))
                           \o into_clause(rw_path) \o RStrip(Drop(rw_orig, p))
                           \o proc_footer
            /\ Cardinality(Occurrences(into_clause(rw_path), rw_file)) = 1

\* C2 witness: a text with two FROM matches that begins with whitespace has
\* been rewritten.
C2_Witness ==
    /\ FirstCallDone
    /\ Cardinality(FromStarts(rw_orig)) = 2
    /\ rw_orig[1] \in Whitespace
    /\ rw_file # rw_orig

\* C3: for a text under the models anchor with no whole-word FROM the
\* rewritten file is the header, the (trimmed) text and the END; footer, and
\* it holds no INTO clause.
C3_NoFromNoInto ==
    (FirstCallDone /\ FromStarts(rw_orig) = {}) =>
        /\ rw_file = proc_header(rw_path) \o Strip(rw_orig) \o proc_footer
        /\ Occurrences(into_clause(rw_path), rw_file) = {}

\* C3 witness: a text that spells FROM only inside a longer word (no
\* whole-word match) has been wrapped.
C3_Witness ==
    /\ FirstCallDone
    /\ FromStarts(rw_orig) = {}
    /\ FromStartsNoBoundary(rw_orig) # {}
    /\ Len(rw_file) = Len(proc_header(rw_path)) + Len(rw_orig) + Len(proc_footer)

\* C4: after a second call on a file the first call has rewritten, the file
\* content equals the content after the first call (no second header, no
\* second INTO clause).
C4_SecondCallKeepsFile ==
    (rw_calls = 2 /\ ~rw_raised /\ Rewritable(rw_path)) => rw_file = rw_first

\* C16: when the segment after the models anchor has an empty remainder once
\* its first _-delimited prefix is stripped (a folder named 10_),
\* transform_compiled_sql skips the file and leaves its content unchanged.
C16_EmptyDomainSkipped ==
    (Rewritable(rw_path) /\ model_folder_name(rw_path) = <<>>) => rw_file = rw_orig

(***************************************************************************)
(* Claims about generate_notebooks, checked under SpecNotebooks.           *)
(***************************************************************************)
\* the positions of the executable model cells of a notebook
ModelCellsOf(cells) == {i \in DOMAIN cells : cells[i].text = "drop and create table"}

\* the .sql files under the folder of a notebook, sub-directories included
SqlFilesUnder(folder) ==
    {f \in nb_compiled : IsPrefix(folder_path(folder), DirOf(f)) /\ EndsWithSql(BaseName(f))}

\* C5: in every notebook written, the model cells of all .sql files under the
\* domain folder, sub-directories included, are there in lexicographic order of
\* file name, and each executable model cell directly follows its own markdown
\* title cell.
C5_CellsSortedByFileName ==
    \A folder \in model_folders(nb_compiled) :
        notebook_name(folder) \in DOMAIN nb_docs =>
            LET cells == nb_docs[notebook_name(folder)]
                at == ModelCellsOf(cells)
            IN  /\ {cells[i].sql : i \in at} = {sql_content(f) : f \in SqlFilesUnder(folder)}
                /\ \A i, j \in at :
                       i < j => ~LexLess(cells[j].model \o SqlExt, cells[i].model \o SqlExt)
                /\ \A i \in at : i > 1 /\ cells[i - 1] = title_cell(cells[i].model)

\* the compiled root of the end-to-end scenario: its .sql files are two model
\* files directly in models/staging and one directly in models/marts
StagingMartsScenario ==
    LET sqls == {f \in nb_compiled : EndsWithSql(BaseName(f))}
        inStaging == {f \in sqls : DirOf(f) = <<SegProject, SegModels, SegStaging>>}
        inMarts == {f \in sqls : DirOf(f) = <<SegProject, SegModels, SegMarts>>}
    IN  /\ sqls = inStaging \cup inMarts
        /\ Cardinality(inStaging) = 2
        /\ Cardinality(inMarts) = 1

ScenarioAssembled == StagingMartsScenario /\ nb_pc = "done" /\ nb_result

\* C6 (as stated): for staging with 2 model files and marts with 1,
\* generate_notebooks writes exactly 2 documents and staging_nb holds 5 cells.
C6_Original ==
    ScenarioAssembled =>
        /\ Cardinality(DOMAIN nb_docs) = 2
        /\ Len(nb_docs[notebook_name(SegStaging)]) = 5

\* C6 (amended): for staging with 2 model files and marts with 1,
\* generate_notebooks writes exactly 2 documents, staging_nb and marts_nb, and
\* staging_nb holds 6 cells: the heading cell, the schema cell and a title cell
\* and a code cell for each of the 2 models.
C6_TwoDocumentsSixCells ==
    ScenarioAssembled =>
        /\ DOMAIN nb_docs = {notebook_name(SegStaging), notebook_name(SegMarts)}
        /\ Len(nb_docs[notebook_name(SegStaging)]) = 6
        /\ Cardinality(ModelCellsOf(nb_docs[notebook_name(SegStaging)])) = 2
        /\ nb_docs[notebook_name(SegStaging)][1] = heading_cell(SegStaging)
        /\ nb_docs[notebook_name(SegStaging)][2] = schema_cell(SegStaging)

\* C6 witness: the scenario has been assembled, with the non-model file
\* notes.txt next to the two staging models.
C6_Witness ==
    /\ ScenarioAssembled
    /\ Cardinality(nb_compiled) = 4
    /\ Cardinality(DOMAIN nb_docs) = 2

\* C15: a model-read or notebook-write error for one domain folder is skipped
\* and the batch goes on: when generate_notebooks has returned, every domain
\* folder other than the one(s) whose own round raised has its notebook.
C15_OtherFoldersStillProduced ==
    (nb_pc = "done" /\ nb_failed # {}) =>
        \A folder \in model_folders(nb_compiled) \ nb_failed :
            notebook_name(folder) \in DOMAIN nb_docs

(***************************************************************************)
(* Claims about zip_directory, checked under SpecArchive.                  *)
(***************************************************************************)
\* the files under source_dir at call time
FilesUnder(source_dir) == {f \in zip_disk : IsPrefix(source_dir, DirOf(f))}

\* C7: after zip_directory(sourceDir, destPath) the entry names of the archive
\* are exactly the paths, relative to sourceDir, of the files under sourceDir:
\* each once, none absolute, none omitted and none left over from an archive
\* that was at destPath before.
C7_EntriesAreRelativePaths ==
    zip_call.status = "returned" =>
        LET entries == zip_archives[zip_call.zip_path]
            under == FilesUnder(zip_call.source_dir)
        IN  /\ Range(entries) = {RelPath(f, zip_call.source_dir) : f \in under}
            /\ Len(entries) = Cardinality(under)
            /\ \A i \in DOMAIN entries :
                   /\ ~IsPrefix(output_dir, entries[i])
                   /\ zip_call.source_dir \o entries[i] \in under
                   /\ entries[i] \notin Range(StaleEntries)

\* C7 witness: compiled_dir with x/1.sql and y/2.sql has been archived over an
\* archive an earlier run had left at the same path.
C7_Witness ==
    /\ zip_call.status = "returned"
    /\ zip_call.replaced
    /\ zip_call.source_dir = compiled_dir
    /\ Range(zip_archives[sql_zip]) =
           { << <<"x">>, <<"1",".","s","q","l">> >>, << <<"y">>, <<"2",".","s","q","l">> >> }

(***************************************************************************)
(* Claims about main(), checked under Spec.                                *)
(***************************************************************************)
\* the engine stages whose failure ends the run
FailFastOps == {"deps", "run-operation", "run", "compile"}

\* C1: when deps, pre-run setup (run-operation), run or compile returns
\* success=false or raises, no later engine stage, no lint, no procedure
\* rewrite, no notebook assembly and no archive write is executed in that run.
C1_FailFast ==
    \A i \in DOMAIN log :
        (log[i].op \in FailFastOps /\ log[i].outcome # "ok") =>
            /\ i = Len(log)
            /\ pc \in {"aborted", "crashed"}

\* C1 witness: in the compile+rewrite mode of snowball.py the run stage has
\* failed after deps and pre-run setup succeeded, and main() has returned.
C1_Witness ==
    /\ prog = "snowball"
    /\ mode = 2
    /\ pc = "aborted"
    /\ Len(log) >= 4
    /\ log[Len(log)] = Stage("run", "fail")
    /\ log[Len(log) - 1] = Stage("run-operation", "ok")

\* a probe that succeeded on a profile of the platform the operator selected
GoodProbe(j) ==
    /\ log[j].op = "debug"
    /\ log[j].outcome = "ok"
    /\ log[j].kind = platform_dict_get(user_choice)

\* C8: in snowball.py main() checking() returns, and deps, seed,
\* run-operation, run or compile is invoked, only after some probe has returned
\* success while the profile's platform kind equalled the selected platform.
C8_GateBeforeEngine ==
    prog = "snowball" =>
        /\ \A i \in DOMAIN log :
               log[i].op \in {"deps", "seed", "run-operation", "run", "compile"} =>
                   \E j \in 1..(i - 1) : GoodProbe(j)
        /\ pc \in {"deps", "mapping", "seed", "menu"} => \E j \in DOMAIN log : GoodProbe(j)

\* C9: when the gate waits for the operator and the operator fixes the profile
\* so that the re-probe succeeds on a profile whose platform kind equals the
\* selected platform, that re-probe ends the gate and main() goes on to the
\* next stage.
C9_ReprobeOpensGate ==
    [][ ( /\ prog = "snowball"
          /\ pc = "gate"
          /\ depth > 1
          /\ Len(log') = Len(log) + 1
          /\ log'[Len(log')].outcome = "ok"
          /\ profile_type = platform_dict_get(user_choice) )
        => pc' = after_gate ]_vars

\* the stages of the run in the order they were executed, the seed step left out
StageOps ==
    LET kept == SelectSeq(log, LAMBDA e : e.op # "seed")
    IN  [i \in DOMAIN kept |-> kept[i].op]

ReachedArchive == mode \in {2, 3} /\ \E i \in DOMAIN log : log[i].op = "archive"

\* the stages from pre-run setup to archive
FromPreSetup ==
    <<"run-operation", "run", "compile", "lint",
      IF mode = 2 THEN "rewrite" ELSE "notebooks", "archive">>

C11_NoStageBeforeMappingExit ==
    pc = "exited" =>
        \A i \in DOMAIN log :
            log[i].op \notin {"debug", "deps", "seed", "run-operation", "run", "compile"}

\* C12: when the seed invocation (seed --select column_mapping) returns
\* failure the run is aborted: no pre-run setup, run, compile, rewrite,
\* notebook assembly or archive step executes afterwards.
C12_SeedFailureAborts ==
    \A i \in DOMAIN log :
        (log[i].op = "seed" /\ log[i].outcome = "fail") =>
            \A j \in (i + 1)..Len(log) :
                log[j].op \notin {"run-operation", "run", "compile", "rewrite",
                                  "notebooks", "archive"}

\* the operations logged after entry i of the stage log
OpsAfter(i) == [k \in 1..(Len(log) - i) |-> log[i + k].op]

\* C13: lint is non-fatal.  Once compile has succeeded, whether the linter is
\* not installed, returns non-zero for every file or raises for a file, the
\* procedure rewrite or the notebook assembly and then the archive step are
\* executed (the run never ends between lint and the archive step), and the
\* linter is called on every file, whatever it did for the files before.
C13_LintNonFatal ==
    \A i \in DOMAIN log :
        (log[i].op = "lint" /\ log[i].outcome # "raise") =>
            LET T == IF mode = 2 THEN "rewrite" ELSE "notebooks"
            IN  /\ log[i - 1].op = "compile" /\ log[i - 1].outcome = "ok"
                /\ \/ pc = "transform" /\ OpsAfter(i) = <<>>
                   \/ pc = "archive" /\ OpsAfter(i) = <<T>>
                   \/ pc \in {"done", "crashed"} /\ OpsAfter(i) = <<T, "archive">>
                /\ lint.version = "ok" => Len(lint.calls) = Len(lint.results)

\* C13 witness: the linter returned non-zero for the first file and raised
\* for the second, both files were handed to it, and the run went on through
\* the rewrite to a written archive.
C13_Witness ==
    /\ pc = "done"
    /\ mode = 2
    /\ lint.version = "ok"
    /\ lint.results = <<"nonzero", "raise">>
    /\ Len(lint.calls) = 2
    /\ \E i \in DOMAIN log : log[i].op = "lint" /\ log[i].outcome = "fail"
    /\ log[Len(log)] = Stage("archive", "ok")

(***************************************************************************)
(* Claims about process_compiled_sql_files, checked under SpecBatch.       *)
(***************************************************************************)
\* the position of a path in the call order
CallIndex(f) == CHOOSE i \in DOMAIN b_calls : b_calls[i] = f

\* C14: the rewriter is batch-resilient.  When the loop has ended,
\* transform_compiled_sql has been called exactly once on every .sql file of
\* the compiled directory, also on those that follow a file whose call failed
\* (read or write error), and every eligible file whose own call did not fail
\* holds its rewritten text.
C14_BatchResilient ==
    b_pc = "done" =>
        /\ Range(b_calls) = sql_files(b_orig)
        /\ Len(b_calls) = Cardinality(sql_files(b_orig))
        /\ \A f \in sql_files(b_orig) :
               (Rewritable(f) /\ f \notin b_failed) =>
                   b_disk[f] = wrapped(f, b_orig[f])

\* C14 witness: the call on one file failed and a file the loop reached after
\* it has been rewritten.
C14_Witness ==
    /\ b_pc = "done"
    /\ \E f \in b_failed, g \in sql_files(b_orig) \ b_failed :
           /\ CallIndex(f) < CallIndex(g)
           /\ Rewritable(g)
           /\ b_disk[g] = wrapped(g, b_orig[g])
           /\ b_disk[g] # b_orig[g]

\* the debug probes logged before entry i
ProbesBefore(i) == {j \in 1..(i - 1) : log[j].op = "debug"}

\* C17: in run_dbt.py main(), after a failed connectivity probe no seed,
\* deps, pre-run setup, run or compile stage is invoked until a later probe has
\* succeeded, whatever the operator types at the retry prompt: the last probe
\* before each such stage is a successful one.
C17_NoStageAfterFailedProbe ==
    prog = "run_dbt" =>
        \A i \in DOMAIN log :
            log[i].op \in {"seed", "deps", "run-operation", "run", "compile"} =>
                /\ ProbesBefore(i) # {}
                /\ log[SetMax(ProbesBefore(i))].outcome = "ok"

\* how often an operation has been invoked in the run
Invocations(op) == Cardinality({i \in DOMAIN log : log[i].op = op})

\* C18: no stage retries itself.  In one run each of deps, seed,
\* run-operation, run and compile is invoked at most once; only the debug
\* probe may be invoked more than once.
C18_NoStageRetries ==
    \A op \in {"deps", "seed", "run-operation", "run", "compile"} : Invocations(op) <= 1

\* C18 witness: a compile+rewrite run of snowball.py that probed twice has
\* ended, with deps, seed, run-operation, run and compile invoked once each.
C18_Witness ==
    /\ prog = "snowball"
    /\ mode = 2
    /\ pc = "done"
    /\ Invocations("debug") = 2
    /\ \A op \in {"deps", "seed", "run-operation", "run", "compile"} : Invocations(op) = 1

\* C19: every engine invocation of a run (debug, deps, seed, run-operation,
\* run, compile) carries the vars bundle {my_database, my_schema, my_table};
\* the values are the names fixed before the first stage, the same in every
\* invocation; the args map {db_name, schema_name, table_name} of
\* run-operation holds the same three values.
C19_SameVarsEverywhere ==
    \A i \in DOMAIN log :
        log[i].op \in EngineOps =>
            /\ log[i].vars # <<>>
            /\ \A k \in DOMAIN log[i].vars :
                   log[i].vars[k] = [my_database |-> dbname, my_schema |-> schemaname,
                                     my_table |-> tablename]
            /\ \A j \in DOMAIN log :
                   log[j].op \in EngineOps => log[j].vars[1] = log[i].vars[1]
            /\ log[i].op = "run-operation" =>
                   /\ Len(log[i].args) = 1
                   /\ log[i].args[1].db_name = log[i].vars[1].my_database
                   /\ log[i].args[1].schema_name = log[i].vars[1].my_schema
                   /\ log[i].args[1].table_name = log[i].vars[1].my_table

\* C19 witness: a compile+notebook run on database db2 has invoked all six
\* engine operations, the probe twice.
C19_Witness ==
    /\ pc = "done"
    /\ mode = 3
    /\ dbname = "db2"
    /\ tablename = "t1"
    /\ {log[i].op : i \in DOMAIN log} \cap EngineOps = EngineOps
    /\ Cardinality({i \in DOMAIN log : log[i].op = "debug"}) = 2

\* the files a previous run left behind
Previous == PreviousCompiled \cup PreviousNotebooks

\* C20: compiled_dir and notebooks_dir are wiped before the first engine
\* invocation and before any artifact is written, so that no file a previous
\* (possibly crashed) run left in them is in the archive the run produces.
C20_WipedBeforeFirstStage ==
    /\ log # <<>> =>
           (out_dirs.compiled \cup out_dirs.notebooks) \cap Previous = {}
    /\ zipped \cap Previous = {}

\* C20 witness: both directories held a file of a previous run, and the
\* compile+notebook run has archived the notebook it wrote.
C20_Witness ==
    /\ pc = "done"
    /\ mode = 3
    /\ zipped = FreshNotebooks
    /\ out_dirs.compiled = FreshCompiled
    /\ \E i \in DOMAIN log : log[i].op = "debug" /\ log[i].outcome = "fail"

(***************************************************************************)
(* Claims about the names transform_compiled_sql writes (SpecRewrite) and  *)
(* about the files it leaves alone (SpecBatch).                            *)
(***************************************************************************)
\* the file lies below a directory that follows the first models segment
BelowDomainFolder(parts) == Rewritable(parts) /\ models_idx(parts) + 2 <= Len(parts)

\* the suffix of a segment after its first _ (the whole segment without _)
SuffixAfterFirstUnderscore(seg) ==
    IF \A i \in DOMAIN seg : seg[i] # "_" THEN seg
    ELSE CHOOSE d \in {Drop(seg, k) : k \in 1..(Len(seg) + 1)} :
             \E pre \in {SubSeq(seg, 1, k) : k \in 0..Len(seg)} :
                 /\ seg = pre \o <<"_">> \o d
                 /\ \A i \in DOMAIN pre : pre[i] # "_"

\* the file base name without its .sql extension
BaseWithoutSql(parts) ==
    LET base == parts[Len(parts)]
    IN  SubSeq(base, 1, Len(base) - Len(SqlExt))

\* <domain>.<model> and <domain>.sp_<model> as the claim spells them
TargetName(parts) ==
    SuffixAfterFirstUnderscore(folder_raw(parts)) \o <<".">> \o BaseWithoutSql(parts)
ProcedureName(parts) ==
    SuffixAfterFirstUnderscore(folder_raw(parts)) \o <<".","s","p","_">>
        \o BaseWithoutSql(parts)

CreateKeyword ==
    <<"C","R","E","A","T","E"," ","O","R"," ","A","L","T","E","R"," ","P","R","O","C","E","D","U","R","E"," ">>
DropKeyword ==
    <<"D","R","O","P"," ","T","A","B","L","E"," ","I","F"," ","E","X","I","S","T","S"," ">>
IntoKeyword == <<"I","N","T","O"," ">>

\* C21: for a compiled file at models/<segment>/.../<model>.sql the rewritten
\* file begins with CREATE OR ALTER PROCEDURE <domain>.sp_<model>, drops
\* <domain>.<model>, and (when the text has a FROM) selects INTO
\* <domain>.<model>, where <domain> is the suffix of <segment> after its first
\* _ (the whole segment without _), <segment> follows the first models
\* segment and <model> is the file base name without extension.
C21_ProcedureAndTargetNames ==
    (FirstCallDone /\ BelowDomainFolder(rw_path)) =>
        LET create == CreateKeyword \o ProcedureName(rw_path) \o <<"\n">>
            drop == DropKeyword \o TargetName(rw_path) \o <<";">>
            into == IntoKeyword \o TargetName(rw_path) \o <<"\n">>
        IN  /\ IsPrefix(create, rw_file)
            /\ Cardinality(Occurrences(drop, rw_file)) = 1
            /\ FromStarts(rw_orig) # {} =>
                   Cardinality(Occurrences(into, rw_file)) = 1

\* C21 witness: a file two levels below a folder with two underscores has been
\* rewritten, and its text had a FROM.
C21_Witness ==
    /\ FirstCallDone
    /\ BelowDomainFolder(rw_path)
    /\ Len(rw_path) = models_idx(rw_path) + 3
    /\ Cardinality({i \in DOMAIN folder_raw(rw_path) : folder_raw(rw_path)[i] = "_"}) = 2
    /\ FromStarts(rw_orig) # {}
    /\ rw_file # rw_orig

\* C22: a compiled .sql file whose path holds no models segment keeps its
\* content through the call of transform_compiled_sql, and the loop goes on:
\* after such a call the batch is over only when every .sql file has been
\* called.
C22_NoAnchorIsNoOp ==
    /\ \A f \in DOMAIN b_disk : ~HasAnchor(f) => b_disk[f] = b_orig[f]
    /\ (b_calls # <<>> /\ ~HasAnchor(b_calls[Len(b_calls)])) =>
           (b_pc = "done" <=> Range(b_calls) = sql_files(b_orig))

\* C22 witness: the loop called a file outside the models anchor first and has
\* then rewritten a file under the anchor.
C22_Witness ==
    /\ b_pc = "done"
    /\ \E f, g \in sql_files(b_orig) :
           /\ ~HasAnchor(f)
           /\ Rewritable(g)
           /\ CallIndex(f) < CallIndex(g)
           /\ b_disk[f] = b_orig[f]
           /\ b_disk[g] # b_orig[g]

(***************************************************************************)
(* Claims about the inputs of main(), checked under Spec.                  *)
(***************************************************************************)
\* C23: in snowball.py main() the platform number is re-asked until it lies in
\* 1..5, so that no connectivity probe is made with a platform choice outside
\* 1..5.
C23_ChoiceInRangeAtGate ==
    (prog = "snowball" /\ \E i \in DOMAIN log : log[i].op = "debug") =>
        user_choice \in 1..5

(***************************************************************************)
(* Claims about the progress bar, checked under SpecProgress.              *)
(***************************************************************************)
\* C24: during run_dbt and the compile branch of run_dbt_args the bar does
\* not display 100% (pbar.n equal to model_count) before the engine
\* invocation has returned, under any interleaving of the two threads.
C24_NoFullBarBeforeReturn ==
    pg_main \in {"start", "invoke"} => pg_n < pg_model_count

(***************************************************************************)
(* Claims that compare the notebooks with the rewriter and with the        *)
(* compiled files, checked under SpecNotebooks.                            *)
(***************************************************************************)
\* the notebooks that hold the text of a compiled file in an executable cell
NotebooksHolding(f) ==
    {n \in DOMAIN nb_docs :
        \E i \in ModelCellsOf(nb_docs[n]) : nb_docs[n][i].sql = sql_content(f)}

\* C25: the schema name the notebook assembler writes for a model (the text
\* after the last _ of the folder name) equals the schema name the procedure
\* rewriter derives for the same compiled file (the suffix after the first _),
\* also for a folder name with more than one _ such as 10_data_marts.
C25_SameSchemaInBothOutputs ==
    \A f \in nb_compiled :
        (EndsWithSql(BaseName(f)) /\ Rewritable(f)) =>
            \A n \in NotebooksHolding(f) :
                \A i \in ModelCellsOf(nb_docs[n]) :
                    nb_docs[n][i].sql = sql_content(f) =>
                        nb_docs[n][i].schema = model_folder_name(f)

\* C26: after a successful generate_notebooks every compiled .sql file under
\* the models anchor, at any directory depth, has its text in the executable
\* cell of exactly one notebook.
C26_EveryModelInExactlyOneNotebook ==
    (nb_pc = "done" /\ nb_result) =>
        \A f \in nb_compiled :
            (EndsWithSql(BaseName(f)) /\ IsPrefix(<<SegProject, SegModels>>, DirOf(f))) =>
                Cardinality(NotebooksHolding(f)) = 1

(***************************************************************************)
(* Claims about files directly in the models folder (SpecRewrite).         *)
(***************************************************************************)
\* the file lies directly in the models folder
DirectlyInModels(parts) == HasAnchor(parts) /\ models_idx(parts) + 1 = Len(parts)

\* C27: the domain name written into the procedure header is a directory
\* name: a compiled .sql file directly inside the models folder is never
\* rewritten with its own file name as the domain.
C27_DomainIsDirectoryName ==
    DirectlyInModels(rw_path) =>
        LET own == CreateKeyword \o rw_path[Len(rw_path)] \o <<".","s","p","_">>
        IN  ~IsPrefix(own, rw_file)

(***************************************************************************)
(* Claims about the packaging modes of main(), checked under Spec.         *)
(***************************************************************************)
\* C28: in the compile+notebook mode of snowball.py main() the notebooks
\* archive is written, and the run ends with the success message, only if
\* generate_notebooks returned success.
C28_ArchiveOnlyAfterNotebookSuccess ==
    (prog = "snowball" /\ mode = 3) =>
        \A i \in DOMAIN log :
            log[i].op = "archive" =>
                \E j \in 1..(i - 1) :
                    log[j].op = "notebooks" /\ log[j].outcome = "ok"

\* the operations a run has logged
LoggedOps == {log[i].op : i \in DOMAIN log}

\* C29: each packaging mode performs only its own transformation: the
\* package-full-project mode invokes no run-operation, run or compile, rewrites
\* no compiled file and writes no notebook; the compile+notebook mode rewrites
\* no compiled file; the compile+rewrite mode writes no notebook.
C29_OnlyOwnTransformation ==
    /\ mode = 1 =>
           /\ LoggedOps \cap {"run-operation", "run", "compile", "lint",
                              "rewrite", "notebooks"} = {}
           /\ out_dirs.notebooks \cap FreshNotebooks = {}
           /\ out_dirs.compiled \cap FreshCompiled = {}
    /\ mode = 2 =>
           /\ "notebooks" \notin LoggedOps
           /\ out_dirs.notebooks \cap FreshNotebooks = {}
    /\ mode = 3 => "rewrite" \notin LoggedOps

\* C29 witness: a compile+notebook run has ended with its notebook written and
\* archived, after a lint that reported issues.
C29_Witness ==
    /\ pc = "done"
    /\ mode = 3
    /\ "notebooks" \in LoggedOps
    /\ FreshNotebooks \subseteq zipped
    /\ \E i \in DOMAIN log : log[i].op = "lint" /\ log[i].outcome = "fail"

\* C30: the argument list handed to the engine for the compile stage holds
\* the --vars option exactly once.
C30_CompileVarsOnce ==
    \A i \in DOMAIN log : log[i].op = "compile" => Len(log[i].vars) = 1

====
